---------------------------- MODULE Spec2Model ----------------------------
(***************************************************************************)
(* A model of app/core/models.py of money-lock: the verification tokens    *)
(* (CustomToken, UserVerificationToken, User.send_email_verification) and   *)
(* the payment agreements with their disputes and their post-commit hook.  *)
(*                                                                         *)
(* Time is counted in hours.  The token alphabet (62 symbols, 7 places) is *)
(* abstracted to the values 1..NumTokenValues, UUIDs to counters that are   *)
(* never reused.                                                           *)
(***************************************************************************)
EXTENDS Integers, FiniteSets, Sequences, TLC

\* ------------------------------------------------------------------ bounds
NumProcs == 2
NumTokenValues == 2
MaxCalls == 3
MaxClock == 25
MaxProbe == 6
NumUsers == 2
MaxAgreements == 2
MaxDisputes == 1

\* ------------------------------------------------------- program constants
\* timedelta(hours=24), models.py:75
ValidityHours == 24
\* expires_on = None (null=True), models.py:103
NoExpiry == -1
\* buyer = None, raised_by = None (null=True), models.py:131 and 186
Null == 0
\* buyer_email = None, which the column (not null) refuses, models.py:132
NoEmail == "None"

Procs == 1..NumProcs
TokenValues == 1..NumTokenValues

VARIABLES
    now,        \* timezone.now(), in hours
    tokens,     \* the UserVerificationToken table: a set of rows
    pc,         \* where each caller of send_email_verification stands
    cand,       \* the caller's local variable `token` (0 outside its scope)
    exc,        \* the exception `e` the caller's handler holds ("" for none)
    log,        \* the last line the caller logged: "", "info" or "error"
    ret,        \* what the caller's call gave: "running", "None" or "raise"
    calls,      \* how many calls of send_email_verification have begun
    sent,       \* the emails handed to send_email: <<user, token>>
    probe,      \* the token is_active was last evaluated on, with the result
    users,          \* the ids of the User rows
    agreements,     \* the PaymentAgreement table
    disputes,       \* the Dispute table
    nextAgreement,  \* the next PaymentAgreement id (uuid4: never reused)
    nextDispute,    \* the next Dispute id
    txn,            \* whether a transaction.atomic block is open
    snapshot,       \* the tables as they were when the block was entered
    on_commit,      \* the hooks queued for the commit: agreement ids, in order
    dispatched,     \* per agreement, how often onCreateAgreement ran send_email
    committed,      \* the agreements whose creation has been committed
    deleted         \* what the last delete() removed or nulled

tokenVars == <<now, tokens, pc, cand, exc, log, ret, calls, sent, probe>>

agreementVars == <<users, agreements, disputes, nextAgreement, nextDispute, txn,
                   snapshot, on_commit, dispatched, committed, deleted>>

vars == <<tokenVars, agreementVars>>

Users == 1..NumUsers
AgreementIds == 1..MaxAgreements

\* -------------------------------------------------------------- CustomToken

\* CustomToken.is_active with `<=` for `<`.
is_active_inclusive(tk, t) ==
    IF ~tk.active THEN FALSE
    ELSE tk.expires_on = NoExpiry \/ t <= tk.expires_on

\* CustomToken.is_active (a property; timezone.now() is the parameter t).
is_active(tk, t) ==
    IF ~tk.active THEN FALSE
    ELSE tk.expires_on = NoExpiry \/ t < tk.expires_on

\* cls.objects.filter(token=token).exists()
exists(t) == \E tk \in tokens : tk.token = t

\* generate_unique_token that returns the value its check found persisted.
GenerateInverted(p, t) ==
    /\ pc[p] = "gen"
    /\ IF ~exists(t)
          THEN UNCHANGED <<pc, cand>>
          ELSE /\ cand' = [cand EXCEPT ![p] = t]
               /\ pc' = [pc EXCEPT ![p] = "create"]
    /\ UNCHANGED <<now, tokens, exc, log, ret, calls, sent, probe>>
    /\ UNCHANGED agreementVars

\* One turn of generate_unique_token's loop: draw t, look it up, return it
\* when no row holds it, draw again otherwise.
generate_unique_token(p, t) ==
    /\ pc[p] = "gen"
    /\ IF exists(t)
          THEN UNCHANGED <<pc, cand>>
          ELSE /\ cand' = [cand EXCEPT ![p] = t]
               /\ pc' = [pc EXCEPT ![p] = "create"]
    /\ UNCHANGED <<now, tokens, exc, log, ret, calls, sent, probe>>
    /\ UNCHANGED agreementVars

\* The store fails during the lookup: the exception leaves the loop.
generate_fails(p) ==
    /\ pc[p] = "gen"
    /\ exc' = [exc EXCEPT ![p] = "mint"]
    /\ pc' = [pc EXCEPT ![p] = "except"]
    /\ UNCHANGED <<now, tokens, cand, log, ret, calls, sent, probe>>
    /\ UNCHANGED agreementVars

\* The row built with a validity of 24 days in place of 24 hours.
NewTokenDays(p) ==
    [id |-> Cardinality(tokens) + 1, token |-> cand[p], user |-> p,
     created_on |-> now,
     expires_on |-> now + ValidityHours * 24, active |-> TRUE]

\* The row UserVerificationToken.objects.create builds: expires_on is
\* timezone.now() + timedelta(hours=24), active its default True.  id is
\* the automatic key: no row is removed while callers run, so the next key
\* is the number of rows plus one.
NewToken(p) ==
    [id |-> Cardinality(tokens) + 1, token |-> cand[p], user |-> p,
     created_on |-> now,
     expires_on |-> now + ValidityHours, active |-> TRUE]

\* objects.create without the column's unique constraint.
CreateNoConstraint(p) ==
    /\ pc[p] = "create"
    /\ tokens' = tokens \cup {NewToken(p)}
    /\ pc' = [pc EXCEPT ![p] = "send"]
    /\ UNCHANGED <<now, cand, exc, log, ret, calls, sent, probe>>
    /\ UNCHANGED agreementVars

\* UserVerificationToken.objects.create: token is unique=True, so the store
\* refuses a value a row already holds (IntegrityError).
objects_create(p) ==
    /\ pc[p] = "create"
    /\ IF exists(cand[p])
          THEN /\ exc' = [exc EXCEPT ![p] = "unique"]
               /\ pc' = [pc EXCEPT ![p] = "except"]
               /\ UNCHANGED tokens
          ELSE /\ tokens' = tokens \cup {NewToken(p)}
               /\ pc' = [pc EXCEPT ![p] = "send"]
               /\ UNCHANGED exc
    /\ UNCHANGED <<now, cand, log, ret, calls, sent, probe>>
    /\ UNCHANGED agreementVars

\* The store fails during the insert for another reason.
create_fails(p) ==
    /\ pc[p] = "create"
    /\ exc' = [exc EXCEPT ![p] = "persist"]
    /\ pc' = [pc EXCEPT ![p] = "except"]
    /\ UNCHANGED <<now, tokens, cand, log, ret, calls, sent, probe>>
    /\ UNCHANGED agreementVars

\* send_email(content, recipients) succeeds; logger.info; the call returns
\* and its local goes.
send_email_ok(p) ==
    /\ pc[p] = "send"
    /\ sent' = sent \cup {<<p, cand[p]>>}
    /\ log' = [log EXCEPT ![p] = "info"]
    /\ ret' = [ret EXCEPT ![p] = "None"]
    /\ pc' = [pc EXCEPT ![p] = "done"]
    /\ cand' = [cand EXCEPT ![p] = 0]
    /\ UNCHANGED <<now, tokens, exc, calls, probe>>
    /\ UNCHANGED agreementVars

\* A failed dispatch that also takes the fresh row back.
send_email_fails_undo(p) ==
    /\ pc[p] = "send"
    /\ exc' = [exc EXCEPT ![p] = "dispatch"]
    /\ pc' = [pc EXCEPT ![p] = "except"]
    /\ tokens' = {tk \in tokens : tk.token # cand[p]}
    /\ UNCHANGED <<now, cand, log, ret, calls, sent, probe>>
    /\ UNCHANGED agreementVars

\* send_email raises.
send_email_fails(p) ==
    /\ pc[p] = "send"
    /\ exc' = [exc EXCEPT ![p] = "dispatch"]
    /\ pc' = [pc EXCEPT ![p] = "except"]
    /\ UNCHANGED <<now, tokens, cand, log, ret, calls, sent, probe>>
    /\ UNCHANGED agreementVars

\* A handler that logs and raises again.
ExceptReraise(p) ==
    /\ pc[p] = "except"
    /\ log' = [log EXCEPT ![p] = "error"]
    /\ ret' = [ret EXCEPT ![p] = "raise"]
    /\ pc' = [pc EXCEPT ![p] = "done"]
    /\ cand' = [cand EXCEPT ![p] = 0]
    /\ UNCHANGED <<now, tokens, exc, calls, sent, probe>>
    /\ UNCHANGED agreementVars

\* except Exception as e: logger.error(...); the call returns None and its
\* local goes.
except_handler(p) ==
    /\ pc[p] = "except"
    /\ log' = [log EXCEPT ![p] = "error"]
    /\ ret' = [ret EXCEPT ![p] = "None"]
    /\ pc' = [pc EXCEPT ![p] = "done"]
    /\ cand' = [cand EXCEPT ![p] = 0]
    /\ UNCHANGED <<now, tokens, exc, calls, sent, probe>>
    /\ UNCHANGED agreementVars

\* A caller enters send_email_verification.
send_email_verification(p) ==
    /\ pc[p] \in {"idle", "done"}
    /\ calls < MaxCalls
    /\ calls' = calls + 1
    /\ pc' = [pc EXCEPT ![p] = "gen"]
    /\ cand' = [cand EXCEPT ![p] = 0]
    /\ exc' = [exc EXCEPT ![p] = ""]
    /\ log' = [log EXCEPT ![p] = ""]
    /\ ret' = [ret EXCEPT ![p] = "running"]
    /\ UNCHANGED <<now, tokens, sent, probe>>
    /\ UNCHANGED agreementVars

\* An hour passes.
Tick ==
    /\ now < MaxClock
    /\ now' = now + 1
    /\ UNCHANGED <<tokens, pc, cand, exc, log, ret, calls, sent, probe>>
    /\ UNCHANGED agreementVars

NoProbe == [tk |-> [active |-> FALSE, expires_on |-> NoExpiry], at |-> 0,
            result |-> FALSE, done |-> FALSE]

InitTokens ==
    /\ now = 0
    /\ tokens = {}
    /\ pc = [p \in Procs |-> "idle"]
    /\ cand = [p \in Procs |-> 0]
    /\ exc = [p \in Procs |-> ""]
    /\ log = [p \in Procs |-> ""]
    /\ ret = [p \in Procs |-> "running"]
    /\ calls = 0
    /\ sent = {}
    /\ probe = NoProbe

\* ------------------------------------------- PaymentAgreement and Dispute
PENDING == "pending"
ACTIVE == "active"
COMPLETED == "completed"
DISPUTED == "disputed"
CANCELED == "canceled"
STATUS_CHOICES == {PENDING, ACTIVE, COMPLETED, DISPUTED, CANCELED}
OPEN == "open"

\* The buyer_email values a writer passes; NoEmail stands for None.
Emails == {"buyer@example.com"}

NoSnapshot == [users |-> {}, agreements |-> {}, disputes |-> {}, tokens |-> {}]

NoDelete == [users |-> {}, agreements |-> {}, disputes |-> {}, nulled |-> {}]

InitAgreements ==
    /\ users = Users
    /\ agreements = {}
    /\ disputes = {}
    /\ nextAgreement = 1
    /\ nextDispute = 1
    /\ txn = FALSE
    /\ snapshot = NoSnapshot
    /\ on_commit = <<>>
    /\ dispatched = [i \in AgreementIds |-> 0]
    /\ committed = {}
    /\ deleted = NoDelete

\* PaymentAgreement.objects.create(buyer=b, buyer_email=e, seller=s): the
\* row gets the default status; buyer_email is not null and seller is a
\* foreign key that is not null, so the store refuses None for either; the
\* AFTER_CREATE hook onCreateAgreement is on_commit=True: it runs at once
\* when no transaction is open and is queued for the commit otherwise.
PaymentAgreement_create(b, e, s) ==
    /\ nextAgreement <= MaxAgreements
    /\ s \in users
    /\ b \in users \cup {Null}
    /\ IF e = NoEmail
          THEN UNCHANGED <<agreements, nextAgreement, on_commit, dispatched,
                           committed>>
          ELSE /\ agreements' = agreements \cup
                     {[id |-> nextAgreement, buyer |-> b, buyer_email |-> e,
                       seller |-> s, status |-> PENDING]}
               /\ nextAgreement' = nextAgreement + 1
               /\ IF txn
                     THEN /\ on_commit' = Append(on_commit, nextAgreement)
                          /\ UNCHANGED <<dispatched, committed>>
                     ELSE /\ dispatched' =
                                [dispatched EXCEPT ![nextAgreement] = @ + 1]
                          /\ committed' = committed \cup {nextAgreement}
                          /\ UNCHANGED on_commit
    /\ UNCHANGED <<users, disputes, nextDispute, txn, snapshot, deleted>>
    /\ UNCHANGED tokenVars

\* agreement.status = st; agreement.save(): the field takes what it is
\* given, and a save of an existing row runs no AFTER_CREATE hook.
save_status(i, st) ==
    /\ \E a \in agreements : a.id = i
    /\ agreements' = {IF a.id = i THEN [a EXCEPT !.status = st] ELSE a :
                        a \in agreements}
    /\ UNCHANGED <<users, disputes, nextAgreement, nextDispute, txn, snapshot,
                   on_commit, dispatched, committed, deleted>>
    /\ UNCHANGED tokenVars

\* The agreements user.delete() removes: those whose seller is u (CASCADE).
Cascaded(u) == {a \in agreements : a.seller = u}

\* user.delete() with buyer on_delete=CASCADE in place of SET_NULL.
DeleteUserBuyerCascade(u) ==
    /\ u \in users
    /\ LET gone == {a \in agreements : a.seller = u \/ a.buyer = u}
           ids  == {a.id : a \in gone}
           kept == {d \in disputes : d.agreement \notin ids}
       IN  /\ agreements' = agreements \ gone
           /\ disputes' = {IF d.raised_by = u THEN [d EXCEPT !.raised_by = Null]
                           ELSE d : d \in kept}
           /\ deleted' = [users |-> {u}, agreements |-> ids,
                          disputes |-> {d.id : d \in disputes \ kept},
                          nulled |-> {}]
    /\ users' = users \ {u}
    /\ tokens' = {tk \in tokens : tk.user # u}
    /\ UNCHANGED <<nextAgreement, nextDispute, txn, snapshot, on_commit,
                   dispatched, committed>>
    /\ UNCHANGED <<now, pc, cand, exc, log, ret, calls, sent, probe>>

\* user.delete() that removes the seller's agreements and leaves their
\* disputes behind.
DeleteUserKeepDisputes(u) ==
    /\ u \in users
    /\ LET gone == Cascaded(u)
           ids  == {a.id : a \in gone}
       IN  /\ agreements' = {IF a.buyer = u THEN [a EXCEPT !.buyer = Null]
                             ELSE a : a \in agreements \ gone}
           /\ disputes' = {IF d.raised_by = u THEN [d EXCEPT !.raised_by = Null]
                           ELSE d : d \in disputes}
           /\ deleted' = [users |-> {u}, agreements |-> ids, disputes |-> {},
                          nulled |-> {a.id : a \in {x \in agreements \ gone :
                                                      x.buyer = u}}]
    /\ users' = users \ {u}
    /\ tokens' = {tk \in tokens : tk.user # u}
    /\ UNCHANGED <<nextAgreement, nextDispute, txn, snapshot, on_commit,
                   dispatched, committed>>
    /\ UNCHANGED <<now, pc, cand, exc, log, ret, calls, sent, probe>>

\* user.delete(): the user's tokens and the agreements it sells go
\* (CASCADE), with the disputes of those agreements (CASCADE); in the rows
\* that stay, buyer and raised_by are set to null where they were u
\* (SET_NULL).
delete_user(u) ==
    /\ u \in users
    /\ LET gone == Cascaded(u)
           ids  == {a.id : a \in gone}
           kept == {d \in disputes : d.agreement \notin ids}
       IN  /\ agreements' = {IF a.buyer = u THEN [a EXCEPT !.buyer = Null]
                             ELSE a : a \in agreements \ gone}
           /\ disputes' = {IF d.raised_by = u THEN [d EXCEPT !.raised_by = Null]
                           ELSE d : d \in kept}
           /\ deleted' = [users |-> {u}, agreements |-> ids,
                          disputes |-> {d.id : d \in disputes \ kept},
                          nulled |-> {a.id : a \in {x \in agreements \ gone :
                                                      x.buyer = u}}]
    /\ users' = users \ {u}
    /\ tokens' = {tk \in tokens : tk.user # u}
    /\ UNCHANGED <<nextAgreement, nextDispute, txn, snapshot, on_commit,
                   dispatched, committed>>
    /\ UNCHANGED <<now, pc, cand, exc, log, ret, calls, sent, probe>>

\* agreement.delete(): its disputes go with it (CASCADE).
delete_agreement(i) ==
    /\ \E a \in agreements : a.id = i
    /\ agreements' = {a \in agreements : a.id # i}
    /\ disputes' = {d \in disputes : d.agreement # i}
    /\ deleted' = [users |-> {}, agreements |-> {i},
                   disputes |-> {d.id : d \in {x \in disputes : x.agreement = i}},
                   nulled |-> {}]
    /\ UNCHANGED <<users, nextAgreement, nextDispute, txn, snapshot, on_commit,
                   dispatched, committed>>
    /\ UNCHANGED tokenVars

\* Dispute.objects.create(agreement=i, raised_by=r): agreement is a foreign
\* key that is not null, raised_by one that may be.
Dispute_create(i, r) ==
    /\ nextDispute <= MaxDisputes
    /\ \E a \in agreements : a.id = i
    /\ r \in users \cup {Null}
    /\ disputes' = disputes \cup
          {[id |-> nextDispute, agreement |-> i, raised_by |-> r,
            status |-> OPEN]}
    /\ nextDispute' = nextDispute + 1
    /\ UNCHANGED <<users, agreements, nextAgreement, txn, snapshot, on_commit,
                   dispatched, committed, deleted>>
    /\ UNCHANGED tokenVars

\* dispute.delete()
delete_dispute(j) ==
    /\ \E d \in disputes : d.id = j
    /\ disputes' = {d \in disputes : d.id # j}
    /\ deleted' = [users |-> {}, agreements |-> {}, disputes |-> {j},
                   nulled |-> {}]
    /\ UNCHANGED <<users, agreements, nextAgreement, nextDispute, txn, snapshot,
                   on_commit, dispatched, committed>>
    /\ UNCHANGED tokenVars

\* with transaction.atomic(): the block is entered.
atomic_enter ==
    /\ ~txn
    /\ txn' = TRUE
    /\ snapshot' = [users |-> users, agreements |-> agreements,
                    disputes |-> disputes, tokens |-> tokens]
    /\ UNCHANGED <<users, agreements, disputes, nextAgreement, nextDispute,
                   on_commit, dispatched, committed, deleted>>
    /\ UNCHANGED tokenVars

\* The hooks a commit runs when the k-th of them raises (k = 0: none does):
\* they run in the order they were queued, and an exception out of one
\* leaves the later ones unrun.
HooksRun(k) ==
    {on_commit[n] : n \in 1..(IF k = 0 THEN Len(on_commit) ELSE k)}

\* The block is left normally: the transaction commits and the queued
\* hooks run, each calling send_email().
atomic_commit(k) ==
    /\ txn
    /\ k \in 0..Len(on_commit)
    /\ txn' = FALSE
    /\ dispatched' = [i \in AgreementIds |->
                        IF i \in HooksRun(k) THEN dispatched[i] + 1
                        ELSE dispatched[i]]
    /\ committed' = committed \cup {on_commit[n] : n \in 1..Len(on_commit)}
    /\ on_commit' = <<>>
    /\ snapshot' = NoSnapshot
    /\ UNCHANGED <<users, agreements, disputes, nextAgreement, nextDispute,
                   deleted>>
    /\ UNCHANGED tokenVars

\* The block is left by an exception: the transaction is rolled back and the
\* queued hooks are dropped.
atomic_rollback ==
    /\ txn
    /\ txn' = FALSE
    /\ users' = snapshot.users
    /\ agreements' = snapshot.agreements
    /\ disputes' = snapshot.disputes
    /\ tokens' = snapshot.tokens
    /\ on_commit' = <<>>
    /\ snapshot' = NoSnapshot
    /\ UNCHANGED <<nextAgreement, nextDispute, dispatched, committed, deleted>>
    /\ UNCHANGED <<now, pc, cand, exc, log, ret, calls, sent, probe>>

\* The state after the tables are made: the users, and nothing else.
Init == InitTokens /\ InitAgreements

\* A writer creates an agreement.
create_agreement ==
    \E b \in Users \cup {Null} : \E e \in Emails \cup {NoEmail} :
        \E s \in Users : PaymentAgreement_create(b, e, s)

\* Creations, deletions and disputes, each in a transaction of its own.
Next ==
    \/ create_agreement
    \/ \E u \in Users : delete_user(u)
    \/ \E i \in AgreementIds : delete_agreement(i)
    \/ \E i \in AgreementIds : \E r \in Users \cup {Null} : Dispute_create(i, r)
    \/ \E j \in 1..MaxDisputes : delete_dispute(j)

Spec == Init /\ [][Next]_vars

\* Creations and status writes, alone.
NextStatus ==
    \/ create_agreement
    \/ \E i \in AgreementIds : \E st \in STATUS_CHOICES : save_status(i, st)

SpecStatus == Init /\ [][NextStatus]_vars

\* Creations and status writes inside and outside atomic blocks.
NextTxn ==
    \/ atomic_enter
    \/ create_agreement
    \/ \E i \in AgreementIds : \E st \in STATUS_CHOICES : save_status(i, st)
    \/ \E k \in 0..MaxAgreements : atomic_commit(k)
    \/ atomic_rollback

SpecTxn == Init /\ [][NextTxn]_vars

\* ------------------------------------------------ the token specifications
Step(p) ==
    \/ send_email_verification(p)
    \/ \E t \in TokenValues : generate_unique_token(p, t)
    \/ generate_fails(p)
    \/ objects_create(p)
    \/ create_fails(p)
    \/ send_email_ok(p)
    \/ send_email_fails(p)
    \/ except_handler(p)

\* Concurrent callers of send_email_verification.
NextMint == \E p \in Procs : Step(p)

SpecMint == Init /\ [][NextMint]_vars

\* Callers whose store and notifier do not fail.
NextLoop ==
    \E p \in Procs :
        \/ send_email_verification(p)
        \/ \E t \in TokenValues : generate_unique_token(p, t)
        \/ objects_create(p)
        \/ send_email_ok(p)
        \/ except_handler(p)

\* Every turn of the loop draws afresh from the whole alphabet
\* (random.choices), so a value that is unused again and again is drawn
\* while it is unused.
FairLoop ==
    \A t \in TokenValues : SF_vars(generate_unique_token(1, t))

SpecLoop == Init /\ [][NextLoop]_vars /\ FairLoop

\* One caller, and the clock.
NextExpiry == Step(1) \/ Tick

SpecExpiry == Init /\ [][NextExpiry]_vars

\* ------------------------------------------------- is_active on any row
ProbeRows ==
    [id : {1}, token : {1}, user : {1}, created_on : {0},
     expires_on : {NoExpiry} \cup (0..MaxProbe), active : BOOLEAN]

InitIsActive ==
    /\ now \in 0..MaxProbe
    /\ \E tk \in ProbeRows : tokens = {tk}
    /\ pc = [p \in Procs |-> "idle"]
    /\ cand = [p \in Procs |-> 0]
    /\ exc = [p \in Procs |-> ""]
    /\ log = [p \in Procs |-> ""]
    /\ ret = [p \in Procs |-> "running"]
    /\ calls = 0
    /\ sent = {}
    /\ probe = NoProbe

InitAnyToken == InitIsActive /\ InitAgreements

\* A reader evaluates tk.is_active.
Evaluate ==
    /\ \E tk \in tokens :
          probe' = [tk |-> [active |-> tk.active, expires_on |-> tk.expires_on],
                    at |-> now, result |-> is_active(tk, now), done |-> TRUE]
    /\ UNCHANGED <<now, tokens, pc, cand, exc, log, ret, calls, sent>>
    /\ UNCHANGED agreementVars

NextIsActive == Evaluate \/ Tick

SpecIsActive == InitAnyToken /\ [][NextIsActive]_vars

\* ================================================================ claims

Free == {t \in TokenValues : ~exists(t)}

Row(p) == {tk \in tokens : tk.token = cand[p] /\ tk.user = p}

\* C2: under every interleaving of concurrent send_email_verification calls
\* (existence check, then a separate insert) no two persisted rows hold the
\* same token value.
C2_TokensUnique ==
    \A a \in tokens : \A b \in tokens : a.token = b.token => a = b

\* Two callers passed the check with the same value; one inserted it, the
\* other's insert was refused.
C2_Witness ==
    \E p \in Procs : \E q \in Procs :
        /\ p # q
        /\ cand[p] = cand[q]
        /\ Row(p) # {}
        /\ exc[q] = "unique"

\* C3: send_email_verification never lets an exception out: a finished call
\* has returned None whichever step failed, as a successful call does.
C3_AlwaysReturns ==
    \A p \in Procs :
        /\ ret[p] # "raise"
        /\ pc[p] = "done" => ret[p] = "None"
        /\ pc[p] = "done" /\ exc[p] # "" => log[p] = "error"

\* One call failed in the dispatch, another succeeded, and both gave None.
C3_Witness ==
    \E p \in Procs : \E q \in Procs :
        /\ pc[p] = "done" /\ exc[p] = "dispatch"
        /\ pc[q] = "done" /\ exc[q] = "" /\ log[q] = "info"
        /\ ret[p] = ret[q]

\* C9: while some token value is unused, generate_unique_token returns (the
\* draws being fair; stated of caller 1, the callers being alike), and the
\* value it returns is one its last lookup found in no row.
C9_GenerateReturnsUnused ==
    /\ [][\A p \in Procs :
            pc[p] = "gen" /\ pc'[p] = "create" => ~exists(cand'[p])]_vars
    /\ (pc[1] = "gen" /\ Free # {}) ~> (pc[1] # "gen" \/ Free = {})

\* The loop returned a value while another value was already taken.
C9_Witness ==
    \E p \in Procs :
        pc[p] = "create" /\ tokens # {} /\ cand[p] \in Free

\* C4: is_active is active AND (no expiry OR now < expires_on); an expiry at
\* or before now, or active = false, each makes it false.
C4_IsActiveFormula ==
    probe.done =>
        /\ probe.result =
              (probe.tk.active /\ (probe.tk.expires_on = NoExpiry
                                     \/ probe.at < probe.tk.expires_on))
        /\ (probe.tk.expires_on # NoExpiry /\ probe.tk.expires_on <= probe.at)
              => ~probe.result
        /\ ~probe.tk.active => ~probe.result

\* is_active was evaluated at the very hour of an active row's expiry.
C4_Witness ==
    /\ probe.done
    /\ probe.tk.active
    /\ probe.tk.expires_on = probe.at
    /\ ~probe.result

\* C5: a minted row has active = true and expires_on = mint time + 24h, is
\* is_active from its mint until then and not from then on; once expired it
\* is never is_active again.
C5_ValidFor24Hours ==
    /\ [](\A tk \in tokens :
            /\ tk.active
            /\ tk.expires_on = tk.created_on + ValidityHours
            /\ tk.created_on <= now
            /\ now < tk.created_on + ValidityHours => is_active(tk, now)
            /\ now >= tk.created_on + ValidityHours => ~is_active(tk, now))
    /\ [][\A tk \in tokens :
            ~is_active(tk, now) => (tk \in tokens' /\ ~is_active(tk, now'))]_vars

\* A row minted after the start has reached its expiry hour.
C5_Witness ==
    \E tk \in tokens :
        tk.created_on > 0 /\ now = tk.expires_on /\ ~is_active(tk, now)

\* C10: the row is persisted before the notifier is called and nothing takes
\* it back: after a failed dispatch it is still there, active and is_active
\* until its expiry, with no email sent; no row ever has active = false and
\* no row is removed.
C10_FailedDispatchKeepsToken ==
    /\ [](\A p \in Procs :
            /\ pc[p] = "send" => Row(p) # {}
            /\ pc[p] = "except" /\ exc[p] = "dispatch" =>
                  /\ Row(p) # {}
                  /\ \A tk \in Row(p) :
                        tk.active /\ (now < tk.expires_on => is_active(tk, now))
                  /\ <<p, cand[p]>> \notin sent)
    /\ [](\A tk \in tokens : tk.active)
    /\ [](\A m \in sent : \E tk \in tokens : tk.user = m[1] /\ tk.token = m[2])
    /\ [][tokens \subseteq tokens']_vars

\* A call whose dispatch failed has returned, and a row of its user for which
\* no email was sent is still is_active.
C10_Witness ==
    \E p \in Procs :
        /\ pc[p] = "done" /\ exc[p] = "dispatch" /\ log[p] = "error"
        /\ \E tk \in tokens :
              tk.user = p /\ <<p, tk.token>> \notin sent /\ is_active(tk, now)

\* C1: every agreement creation has its buyer notification dispatched exactly
\* once, and only after its transaction has committed: none before the
\* commit, none for a creation that is rolled back, none for a later update.
C1_DispatchedOnceAfterCommit ==
    \A i \in AgreementIds :
        dispatched[i] = IF i \in committed THEN 1 ELSE 0

\* The edges the agreement lifecycle allows.
LegalEdges ==
    {<<PENDING, ACTIVE>>, <<ACTIVE, COMPLETED>>, <<ACTIVE, DISPUTED>>,
     <<PENDING, CANCELED>>, <<ACTIVE, CANCELED>>}

\* C6: an agreement starts pending and its status changes only along
\* pending->active, active->completed, active->disputed, pending->canceled
\* and active->canceled.
C6_LegalTransitions ==
    [][\A b \in agreements' :
          IF \E a \in agreements : a.id = b.id
             THEN \A a \in agreements :
                     a.id = b.id /\ a.status # b.status
                        => <<a.status, b.status>> \in LegalEdges
             ELSE b.status = PENDING]_vars

C8_SellerCascade ==
    /\ [][\A u \in users : u \notin users' =>
            \A a \in agreements : a.seller = u =>
                /\ \A b \in agreements' : b.id # a.id
                /\ \A d \in disputes' : d.agreement # a.id]_vars
    /\ [](\A a \in agreements : a.seller \in users)
    /\ [](\A d \in disputes : \E a \in agreements : a.id = d.agreement)

\* The last delete was of a seller and took an agreement and a dispute on it
\* along.
C8_Witness ==
    /\ deleted.users # {}
    /\ deleted.agreements # {}
    /\ deleted.disputes # {}
    /\ \A a \in agreements : a.id \notin deleted.agreements
    /\ \A d \in disputes : d.id \notin deleted.disputes

==========================================================================
